---- MODULE Spec2Model ----
(***************************************************************************)
(* Model of the multi-resolution image alignment of notebooks/ch7.ipynb:   *)
(* downsample2x, gaussian_pyramid, make_rigid_transform and the second     *)
(* definition of align (the one taking nlevels and method).                *)
(*                                                                         *)
(* An image is a record [src, shape, ops]: which input it descends from,   *)
(* its axis sizes, and the sequence of array operations that produced it   *)
(* from that input.  A parameter vector is a 3-tuple <<r, tc, tr>>; numpy  *)
(* index i is tuple index i+1.  Arrays that align can mutate in place live *)
(* in heap, and p and res hold references (indices) into it.               *)
(***************************************************************************)
EXTENDS Integers, Sequences, FiniteSets, TLC

\* ------------------------------------------------------------------ bounds
MaxSide == 4
MaxTgtSide == 2
MaxLevels == 5
MaxStops == 2
MaxPixels == 3
MaxVal == 2

\* -------------------------------------------------------- program constants
BHThreshold == 4

\* np.histogramdd(..., bins=100)
NBins == 100

\* gaussian_pyramid's default level count
DefaultLevels == 6

VARIABLES reference, target, nlevels, method_arg,
          method, pyramid_ref, pyramid_tgt, levels,
          n, ref, tgt, heap, p, res, calls, result, pc,
          arrA, arrB, fn_param, fn, mse_out, nmi_out,
          ds_coords, yielded, stops

vars == <<reference, target, nlevels, method_arg,
          method, pyramid_ref, pyramid_tgt, levels,
          n, ref, tgt, heap, p, res, calls, result, pc,
          arrA, arrB, fn_param, fn, mse_out, nmi_out,
          ds_coords, yielded, stops>>

\* the variables of one align call
alignvars == <<reference, target, nlevels, method_arg,
               method, pyramid_ref, pyramid_tgt, levels,
               n, ref, tgt, heap, p, res, calls, result, pc>>

\* the variables of a direct call of one of the other functions
fnvars == <<arrA, arrB, fn_param, fn, mse_out, nmi_out,
            ds_coords, yielded, stops>>

\* ------------------------------------------------------------------ inputs
ReferenceShapes == (1..MaxSide) \X (1..MaxSide)

TargetShapes == (1..MaxTgtSide) \X (1..MaxTgtSide)

LevelCounts == (-1)..MaxLevels

\* method strings, as sequences of characters
Methods == { <<"P","o","w","e","l","l">>, <<"B","H">>, <<"b","h">>, <<"C","G">> }

\* vectors the external optimizers may return
OptResults == { <<1, 3, -2>>, <<-1, 0, 5>> }

NewImage(name, shape) == [src |-> name, shape |-> shape, ops |-> <<>>]

NoImage == [src |-> "none", shape |-> <<>>, ops |-> <<>>]

\* ---------------------------------------------------------- downsample2x
\* sampling from coordinate 0 whatever the size
OffsetZero(s) == 0

\* twice the sampling offset ((s + 1) % 2) / 2 of an axis of size s
Offset2(s) == (s + 1) % 2

\* number of points of np.mgrid[slice(start, stop, step)]:
\* ceil((stop - start) / step), with start given doubled
MgridLenFloor(start2, stop, step) == (2 * stop - start2) \div (2 * step)

MgridLen(start2, stop, step) == ((2 * stop - start2) + (2 * step - 1)) \div (2 * step)

\* the (doubled) sample coordinates along an axis of size s
Coords2(s) == [i \in 1..MgridLen(Offset2(s), s, 2) |-> Offset2(s) + 4 * (i - 1)]

downsample2x(image) ==
    [image EXCEPT !.shape = [a \in DOMAIN image.shape |-> Len(Coords2(image.shape[a]))],
                  !.ops = Append(@, "downsample2x")]

\* ndi.gaussian_filter(image, sigma=2/3): same shape, new array
gaussian_filter(image) == [image EXCEPT !.ops = Append(@, "gaussian_filter")]

\* ------------------------------------------------------ gaussian_pyramid
RangeLenAbs(levels_) == IF levels_ - 1 >= 0 THEN levels_ - 1 ELSE 1 - levels_

RangeLenOff(levels_) == IF levels_ > 0 THEN levels_ ELSE 0

\* number of iterations of `for level in range(levels - 1)`
RangeLen(levels_) == IF levels_ - 1 > 0 THEN levels_ - 1 ELSE 0

\* one loop body: the image appended to the pyramid
PyramidStep(image) ==
    LET blurred == gaussian_filter(image)
    IN  downsample2x(image)

RECURSIVE PyramidLoop(_, _, _)
PyramidLoop(image, pyramid, k) ==
    IF k = 0 THEN pyramid
    ELSE LET image2 == PyramidStep(image)
         IN  PyramidLoop(image2, Append(pyramid, image2), k - 1)

NotReversed(s) == s

Reversed(s) == [i \in 1..Len(s) |-> s[Len(s) + 1 - i]]

\* an iterator: the items and how many have been consumed
Iter(items) == [items |-> items, pos |-> 0]

HasNext(it) == it.pos < Len(it.items)

Peek(it) == it.items[it.pos + 1]

\* an iterable that starts over once it has been exhausted
AdvanceRestart(it) == IF HasNext(it) THEN [it EXCEPT !.pos = @ + 1] ELSE [it EXCEPT !.pos = 0]

\* next(it): past the end the iterator stays at the end
Advance(it) == IF HasNext(it) THEN [it EXCEPT !.pos = @ + 1] ELSE it

gaussian_pyramid(image, levels_) ==
    Iter(Reversed(PyramidLoop(image, <<image>>, RangeLen(levels_))))

\* --------------------------------------------------- make_rigid_transform
make_rigid_transform(param) ==
    [rotation |-> param[1], translation |-> <<param[2], param[3]>>, scale |-> 1]

\* ------------------------------------------------------------------ align
UpperChar(c) ==
    CASE c = "b" -> "B" [] c = "h" -> "H" [] c = "o" -> "O" [] c = "w" -> "W"
      [] c = "e" -> "E" [] c = "l" -> "L" [] OTHER -> c

Upper(s) == [i \in 1..Len(s) |-> UpperChar(s[i])]

\* the level test made before the optimizer is chosen
IsBHAbove(m) == Upper(m) = <<"B","H">> /\ n > BHThreshold

IsNotPowell(m) == Upper(m) # <<"P","O","W","E","L","L">>

\* method.upper() == 'BH'
IsBH(m) == Upper(m) = <<"B","H">>

\* range(nlevels, -1, -1)
RangeDownIncl(hi) == [i \in 1..(IF hi >= 0 THEN hi + 1 ELSE 0) |-> hi + 1 - i]

RangeDownShort(hi) == [i \in 1..(IF hi - 1 > 0 THEN hi - 1 ELSE 0) |-> hi - i]

\* range(nlevels, 0, -1)
RangeDown(hi) == [i \in 1..(IF hi > 0 THEN hi ELSE 0) |-> hi + 1 - i]

ScaledAll(v) == <<2 * v[1], 2 * v[2], 2 * v[3]>>

ScaledNone(v) == v

\* p[1:] *= 2
Scaled(v) == <<v[1], 2 * v[2], 2 * v[3]>>

Ones3 == <<1, 1, 1>>

Zeros3 == <<0, 0, 0>>

\* zip(levels, zip(pyramid_ref, pyramid_tgt)) can produce another triple
ZipHasNext == HasNext(levels) /\ HasNext(pyramid_ref) /\ HasNext(pyramid_tgt)

NoMse == [num |-> 0, den |-> 1]

NoEntropy == [nn |-> 0, pp |-> 1]

NoNmi == [ha |-> NoEntropy, hb |-> NoEntropy, hab |-> NoEntropy, neg |-> FALSE]

\* no function other than align has been called
FnIdle ==
    /\ arrA = <<>>
    /\ arrB = <<>>
    /\ fn_param = Zeros3
    /\ fn = "none"
    /\ mse_out = NoMse
    /\ nmi_out = NoNmi
    /\ ds_coords = <<>>
    /\ yielded = <<>>
    /\ stops = 0

Init ==
    /\ \E rs \in ReferenceShapes : reference = NewImage("reference", rs)
    /\ \E ts \in TargetShapes : target = NewImage("target", ts)
    /\ nlevels \in LevelCounts
    /\ method_arg \in Methods
    /\ method = method_arg
    /\ pyramid_ref = Iter(<<>>)
    /\ pyramid_tgt = Iter(<<>>)
    /\ levels = Iter(<<>>)
    /\ n = 0
    /\ ref = NoImage
    /\ tgt = NoImage
    /\ heap = <<>>
    /\ p = 0
    /\ res = 0
    /\ calls = <<>>
    /\ result = <<>>
    /\ pc = "start"
    /\ FnIdle

\* the target pyramid built with gaussian_pyramid's default level count
SetupDefaultLevels ==
    /\ pc = "start"
    /\ pyramid_ref' = gaussian_pyramid(reference, nlevels)
    /\ pyramid_tgt' = gaussian_pyramid(target, DefaultLevels)
    /\ levels' = Iter(RangeDown(nlevels))
    /\ heap' = Append(heap, Zeros3)
    /\ p' = Len(heap) + 1
    /\ pc' = "loop"
    /\ UNCHANGED <<reference, target, nlevels, method_arg, method,
                   n, ref, tgt, res, calls, result>>
    /\ UNCHANGED fnvars

\* lines 670-676: build both pyramids, the level range, and p = np.zeros(3)
Setup ==
    /\ pc = "start"
    /\ pyramid_ref' = gaussian_pyramid(reference, nlevels)
    /\ pyramid_tgt' = gaussian_pyramid(target, nlevels)
    /\ levels' = Iter(RangeDown(nlevels))
    /\ heap' = Append(heap, Zeros3)
    /\ p' = Len(heap) + 1
    /\ pc' = "loop"
    /\ UNCHANGED <<reference, target, nlevels, method_arg, method,
                   n, ref, tgt, res, calls, result>>
    /\ UNCHANGED fnvars

\* lines 678-679: the for statement binds n, ref, tgt; then p[1:] *= 2 in place
Rescale ==
    /\ pc = "loop"
    /\ ZipHasNext
    /\ n' = Peek(levels)
    /\ ref' = Peek(pyramid_ref)
    /\ tgt' = Peek(pyramid_tgt)
    /\ levels' = Advance(levels)
    /\ pyramid_ref' = Advance(pyramid_ref)
    /\ pyramid_tgt' = Advance(pyramid_tgt)
    /\ heap' = [heap EXCEPT ![p] = Scaled(@)]
    /\ pc' = "optimize"
    /\ UNCHANGED <<reference, target, nlevels, method_arg, method,
                   p, res, calls, result>>
    /\ UNCHANGED fnvars

\* the record of one optimizer invocation
Call(opt, xid, x) ==
    [opt |-> opt, n |-> n, ref |-> ref, tgt |-> tgt,
     x0id |-> p, x0 |-> heap[p], xid |-> xid, x |-> x]

\* lines 680-684 and 687: basinhopping, the switch to Powell, p = res.x
OptimizeBH ==
    /\ pc = "optimize"
    /\ IsBH(method)
    /\ \E x \in OptResults :
         /\ heap' = Append(heap, x)
         /\ res' = Len(heap) + 1
         /\ calls' = Append(calls, Call("basinhopping", Len(heap) + 1, x))
    /\ method' = IF n <= BHThreshold THEN <<"P","o","w","e","l","l">> ELSE method
    /\ p' = res'
    /\ pc' = "loop"
    /\ UNCHANGED <<reference, target, nlevels, method_arg,
                   pyramid_ref, pyramid_tgt, levels, n, ref, tgt, result>>
    /\ UNCHANGED fnvars

\* lines 685-687: minimize(..., method='Powell'), p = res.x
OptimizePowell ==
    /\ pc = "optimize"
    /\ ~IsBH(method)
    /\ \E x \in OptResults :
         /\ heap' = Append(heap, x)
         /\ res' = Len(heap) + 1
         /\ calls' = Append(calls, Call("minimize", Len(heap) + 1, x))
    /\ p' = res'
    /\ pc' = "loop"
    /\ UNCHANGED <<reference, target, nlevels, method_arg, method,
                   pyramid_ref, pyramid_tgt, levels, n, ref, tgt, result>>
    /\ UNCHANGED fnvars

\* line 678 (zip exhausted) and line 694: return make_rigid_transform(p)
Return ==
    /\ pc = "loop"
    /\ ~ZipHasNext
    /\ levels' = Advance(levels)
    /\ pyramid_ref' = IF HasNext(levels) THEN Advance(pyramid_ref) ELSE pyramid_ref
    /\ pyramid_tgt' = IF HasNext(levels) /\ HasNext(pyramid_ref)
                      THEN Advance(pyramid_tgt) ELSE pyramid_tgt
    /\ result' = <<make_rigid_transform(heap[p])>>
    /\ pc' = "done"
    /\ UNCHANGED <<reference, target, nlevels, method_arg, method,
                   n, ref, tgt, heap, p, res, calls>>
    /\ UNCHANGED fnvars

Next == Setup \/ Rescale \/ OptimizeBH \/ OptimizePowell \/ Return

Spec == Init /\ [][Next]_vars

\* ------------------------------------- downsample2x and gaussian_pyramid
\* called directly, the pyramid iterator traversed by its caller
\* downsample2x(reference): the sample coordinates of every axis, and the result
FnDownsample ==
    /\ pc = "start"
    /\ fn' = "downsample2x"
    /\ ds_coords' = [a \in DOMAIN reference.shape |-> Coords2(reference.shape[a])]
    /\ ref' = downsample2x(reference)
    /\ pc' = "fn_done"
    /\ UNCHANGED <<reference, target, nlevels, method_arg, method, pyramid_ref,
                   pyramid_tgt, levels, n, tgt, heap, p, res, calls, result>>
    /\ UNCHANGED <<arrA, arrB, fn_param, mse_out, nmi_out, yielded, stops>>

\* pyramid = gaussian_pyramid(reference, levels=nlevels)
FnPyramid ==
    /\ pc = "start"
    /\ fn' = "gaussian_pyramid"
    /\ pyramid_ref' = gaussian_pyramid(reference, nlevels)
    /\ pc' = "traverse"
    /\ UNCHANGED <<reference, target, nlevels, method_arg, method,
                   pyramid_tgt, levels, n, ref, tgt, heap, p, res, calls, result>>
    /\ UNCHANGED <<arrA, arrB, fn_param, mse_out, nmi_out, ds_coords, yielded, stops>>

\* next(pyramid): an image, or StopIteration (counted in stops)
FnNext ==
    /\ pc = "traverse"
    /\ stops < MaxStops
    /\ IF HasNext(pyramid_ref)
       THEN yielded' = Append(yielded, Peek(pyramid_ref)) /\ stops' = stops
       ELSE yielded' = yielded /\ stops' = stops + 1
    /\ pyramid_ref' = Advance(pyramid_ref)
    /\ UNCHANGED <<reference, target, nlevels, method_arg, method,
                   pyramid_tgt, levels, n, ref, tgt, heap, p, res, calls, result, pc>>
    /\ UNCHANGED <<arrA, arrB, fn_param, fn, mse_out, nmi_out, ds_coords>>

NextPyr ==
    \/ Setup \/ Rescale \/ OptimizeBH \/ OptimizePowell \/ Return
    \/ FnDownsample \/ FnPyramid \/ FnNext

SpecPyr == Init /\ [][NextPyr]_vars

\* ------------------------------------------------- mse and cost_mse
\* Pixel arrays are the ravelled samples of one-row images; a sample is a
\* grey level in 0..MaxVal.
Arrays == UNION {[1..k -> 0..MaxVal] : k \in 1..MaxPixels}

\* pure column translations by a whole number of pixels
CostParams == { <<0, 0, 0>>, <<0, 1, 0>> }

RECURSIVE SumSeq(_)
SumSeq(s) == IF s = <<>> THEN 0 ELSE Head(s) + SumSeq(Tail(s))

mseNoSquare(arr1, arr2) ==
    [num |-> SumSeq([i \in DOMAIN arr1 |-> arr1[i] - arr2[i]]), den |-> Len(arr1)]

\* np.mean((arr1 - arr2)**2), as the fraction num/den
mse(arr1, arr2) ==
    [num |-> SumSeq([i \in DOMAIN arr1 |-> (arr1[i] - arr2[i]) * (arr1[i] - arr2[i])]),
     den |-> Len(arr1)]

\* transform.warp(image, tf, order=3) of a one-row image under a whole-pixel
\* translation: output[c] = image[c + tc] on row tr, 0 outside the image
warp(image, tf) ==
    [c \in DOMAIN image |->
        IF tf.translation[2] = 0 /\ (c + tf.translation[1]) \in DOMAIN image
        THEN image[c + tf.translation[1]] ELSE 0]

cost_mse(param, reference_image, target_image) ==
    LET transformation == make_rigid_transform(param)
        transformed == warp(target_image, transformation)
    IN  mse(reference_image, transformed)

\* ----------------------- normalized_mutual_information and cost_nmi
Min(s) == CHOOSE v \in {s[i] : i \in DOMAIN s} : \A i \in DOMAIN s : v <= s[i]

Max(s) == CHOOSE v \in {s[i] : i \in DOMAIN s} : \A i \in DOMAIN s : v >= s[i]

\* the bin of v among NBins equal bins over [lo, hi] (the last bin includes
\* hi); a degenerate range lo = hi is widened to [lo - 1/2, hi + 1/2]
BinIndex(v, lo, hi) ==
    IF lo = hi THEN ((2 * v - (2 * lo - 1)) * NBins) \div 2
    ELSE IF v = hi THEN NBins - 1
    ELSE ((v - lo) * NBins) \div (hi - lo)

\* the samples of B taken in reverse order
histogramddReversed(A, B) ==
    LET cell(i) == <<BinIndex(A[i], Min(A), Max(A)),
                     BinIndex(B[Len(B) + 1 - i], Min(B), Max(B))>>
        cells == {cell(i) : i \in DOMAIN A}
    IN  [cnt |-> [c \in cells |-> Cardinality({i \in DOMAIN A : cell(i) = c})],
         tot |-> 1]

\* np.histogramdd([ravel(A), ravel(B)], bins=100): the non-empty cells of the
\* 2-D histogram with their counts; an entry's value is cnt / tot
histogramdd(A, B) ==
    LET cell(i) == <<BinIndex(A[i], Min(A), Max(A)), BinIndex(B[i], Min(B), Max(B))>>
        cells == {cell(i) : i \in DOMAIN A}
    IN  [cnt |-> [c \in cells |-> Cardinality({i \in DOMAIN A : cell(i) = c})],
         tot |-> 1]

RECURSIVE SumOver(_, _)
SumOver(f, S) ==
    IF S = {} THEN 0
    ELSE LET x == CHOOSE x \in S : TRUE IN f[x] + SumOver(f, S \ {x})

\* hist /= np.sum(hist)
Normalized(hist) == [hist EXCEPT !.tot = hist.tot * SumOver(hist.cnt, DOMAIN hist.cnt)]

\* np.sum(hist, axis=0)
SumAxis0(hist) ==
    [cnt |-> [j \in {c[2] : c \in DOMAIN hist.cnt} |->
                 SumOver(hist.cnt, {c \in DOMAIN hist.cnt : c[2] = j})],
     tot |-> hist.tot]

\* np.sum(hist, axis=1)
SumAxis1(hist) ==
    [cnt |-> [i \in {c[1] : c \in DOMAIN hist.cnt} |->
                 SumOver(hist.cnt, {c \in DOMAIN hist.cnt : c[1] = i})],
     tot |-> hist.tot]

\* the joint histogram replaced by one of its marginals
RavelMarginal(hist) == SumAxis0(hist)

\* np.ravel(hist)
Ravel(hist) == hist

RECURSIVE Pow(_, _)
Pow(b, e) == IF e = 0 THEN 1 ELSE b * Pow(b, e - 1)

RECURSIVE ProdPow(_, _)
ProdPow(f, S) ==
    IF S = {} THEN 1
    ELSE LET x == CHOOSE x \in S : TRUE IN Pow(f[x], f[x]) * ProdPow(f, S \ {x})

\* scipy.stats.entropy(pk): pk is normalised to sum 1 and H = -sum(p ln p).
\* With counts c_i summing to nn, H = ln(nn^nn / pp) / nn for
\* pp = prod c_i^c_i; the pair (nn, pp) stands for H exactly.
entropy(pk) ==
    [nn |-> SumOver(pk.cnt, DOMAIN pk.cnt), pp |-> ProdPow(pk.cnt, DOMAIN pk.cnt)]

\* (H_A + H_B) / H_AB, kept as its three entropies; neg marks a negated value
normalized_mutual_information(A, B) ==
    LET hist == Normalized(histogramdd(A, B))
        H_A == entropy(SumAxis0(hist))
        H_B == entropy(SumAxis1(hist))
        H_AB == entropy(Ravel(hist))
    IN  [ha |-> H_A, hb |-> H_B, hab |-> H_AB, neg |-> FALSE]

cost_nmi(param, reference_image, target_image) ==
    LET transformation == make_rigid_transform(param)
        transformed == warp(target_image, transformation)
        nmi == normalized_mutual_information(reference_image, transformed)
    IN  [nmi EXCEPT !.neg = ~nmi.neg]

\* the inputs of a direct call of mse, cost_mse, normalized_mutual_information
\* or cost_nmi on two images of equal size
InitCost ==
    /\ arrA \in Arrays
    /\ arrB \in {b \in Arrays : Len(b) = Len(arrA)}
    /\ fn_param = Zeros3
    /\ fn = "none"
    /\ mse_out = NoMse
    /\ nmi_out = NoNmi
    /\ ds_coords = <<>>
    /\ yielded = <<>>
    /\ stops = 0
    /\ reference = NewImage("reference", <<1, Len(arrA)>>)
    /\ target = NewImage("target", <<1, Len(arrB)>>)
    /\ nlevels = 0
    /\ method_arg = <<"P","o","w","e","l","l">>
    /\ method = method_arg
    /\ pyramid_ref = Iter(<<>>)
    /\ pyramid_tgt = Iter(<<>>)
    /\ levels = Iter(<<>>)
    /\ n = 0
    /\ ref = NoImage
    /\ tgt = NoImage
    /\ heap = <<>>
    /\ p = 0
    /\ res = 0
    /\ calls = <<>>
    /\ result = <<>>
    /\ pc = "cost"

FnMse ==
    /\ pc = "cost"
    /\ fn' = "mse"
    /\ mse_out' = mse(arrA, arrB)
    /\ pc' = "fn_done"
    /\ UNCHANGED <<arrA, arrB, fn_param, nmi_out, ds_coords, yielded, stops>>
    /\ UNCHANGED <<reference, target, nlevels, method_arg, method, pyramid_ref,
                   pyramid_tgt, levels, n, ref, tgt, heap, p, res, calls, result>>

FnCostMse ==
    /\ pc = "cost"
    /\ fn' = "cost_mse"
    /\ \E param \in CostParams :
          /\ fn_param' = param
          /\ mse_out' = cost_mse(param, arrA, arrB)
    /\ pc' = "fn_done"
    /\ UNCHANGED <<arrA, arrB, nmi_out, ds_coords, yielded, stops>>
    /\ UNCHANGED <<reference, target, nlevels, method_arg, method, pyramid_ref,
                   pyramid_tgt, levels, n, ref, tgt, heap, p, res, calls, result>>

FnNmi ==
    /\ pc = "cost"
    /\ fn' = "nmi"
    /\ nmi_out' = normalized_mutual_information(arrA, arrB)
    /\ pc' = "fn_done"
    /\ UNCHANGED <<arrA, arrB, fn_param, mse_out, ds_coords, yielded, stops>>
    /\ UNCHANGED <<reference, target, nlevels, method_arg, method, pyramid_ref,
                   pyramid_tgt, levels, n, ref, tgt, heap, p, res, calls, result>>

FnCostNmi ==
    /\ pc = "cost"
    /\ fn' = "cost_nmi"
    /\ \E param \in CostParams :
          /\ fn_param' = param
          /\ nmi_out' = cost_nmi(param, arrA, arrB)
    /\ pc' = "fn_done"
    /\ UNCHANGED <<arrA, arrB, mse_out, ds_coords, yielded, stops>>
    /\ UNCHANGED <<reference, target, nlevels, method_arg, method, pyramid_ref,
                   pyramid_tgt, levels, n, ref, tgt, heap, p, res, calls, result>>

NextCost == FnMse \/ FnCostMse \/ FnNmi \/ FnCostNmi

SpecCost == InitCost /\ [][NextCost]_vars

\* ------------------------------------------------------------- properties
PyramidsBuilt == pc # "start"

Pyramids == {pyramid_ref.items, pyramid_tgt.items}

NumDownsamples(image) ==
    Cardinality({i \in DOMAIN image.ops : image.ops[i] = "downsample2x"})

CeilHalf(s) == (s + 1) \div 2

RECURSIVE HalvedTimes(_, _)
HalvedTimes(s, k) == IF k = 0 THEN s ELSE HalvedTimes(CeilHalf(s), k - 1)

\* image is `orig` downsampled k times (whatever else was applied)
IsDownsampled(image, orig, k) ==
    /\ image.src = orig.src
    /\ NumDownsamples(image) = k
    /\ DOMAIN image.shape = DOMAIN orig.shape
    /\ \A a \in DOMAIN orig.shape : image.shape[a] = HalvedTimes(orig.shape[a], k)

CalledWithBH == method_arg = <<"B","H">>

\* C1: every non-finest pyramid image is the Gaussian-blurred next-finer
\* level, downsampled by 2 (the blurred image is what downsample2x receives).
C1_BlurThenDownsample ==
    (PyramidsBuilt /\ nlevels >= 1) =>
        \A pyr \in Pyramids : \A i \in 1..(Len(pyr) - 1) :
            pyr[i] = downsample2x(gaussian_filter(pyr[i + 1]))

\* C2: called with method 'BH', basinhopping is invoked only at levels n > 4
\* and every level n <= 4 is optimized by minimize (Powell).
C2_BHOnlyAboveThreshold ==
    (CalledWithBH /\ nlevels >= 1) =>
        \A k \in DOMAIN calls :
            /\ calls[k].opt = "basinhopping" => calls[k].n > 4
            /\ calls[k].n <= 4 => calls[k].opt = "minimize"

\* C3: called with method 'BH', the finest level (n = 1, the full-resolution
\* images) is never optimized by basinhopping, always by Powell.
C3_FinestLevelNeverBH ==
    (CalledWithBH /\ nlevels >= 1) =>
        \A k \in DOMAIN calls :
            calls[k].n = 1 => calls[k].opt = "minimize"

\* C4: the vector handed to the optimizer at a level has translation
\* components exactly twice those returned at the previous (coarser) level
\* and the same rotation component.
C4_RescaleBetweenLevels ==
    \A k \in DOMAIN calls : k > 1 =>
        /\ calls[k].x0[1] = calls[k - 1].x[1]
        /\ calls[k].x0[2] = 2 * calls[k - 1].x[2]
        /\ calls[k].x0[3] = 2 * calls[k - 1].x[3]

C4_Witness ==
    /\ Len(calls) >= 2
    /\ calls[1].x = <<1, 3, -2>>
    /\ calls[2].x0 = <<1, 6, -4>>

\* C5: for nlevels >= 1 the optimizer is invoked exactly nlevels times, for
\* level indices nlevels, nlevels-1, ..., 1; the invocation for level n gets
\* the reference and target downsampled n-1 times (level 1: the originals);
\* align returns make_rigid_transform of the level-1 result, not rescaled.
C5_LevelSchedule ==
    (nlevels >= 1) =>
        /\ Len(calls) <= nlevels
        /\ \A k \in DOMAIN calls :
              /\ calls[k].n = nlevels + 1 - k
              /\ IsDownsampled(calls[k].ref, reference, calls[k].n - 1)
              /\ IsDownsampled(calls[k].tgt, target, calls[k].n - 1)
              /\ calls[k].n = 1 => (calls[k].ref = reference /\ calls[k].tgt = target)
        /\ pc = "done" =>
              /\ Len(calls) = nlevels
              /\ result = <<make_rigid_transform(calls[nlevels].x)>>

C5_Witness ==
    /\ pc = "done"
    /\ nlevels = 3
    /\ Len(calls) = 3
    /\ calls[3].n = 1
    /\ result = <<[rotation |-> 1, translation |-> <<3, -2>>, scale |-> 1]>>

\* C6: for levels >= 1 gaussian_pyramid yields exactly levels images.
C6_PyramidLength ==
    (PyramidsBuilt /\ nlevels >= 1) =>
        \A pyr \in Pyramids : Len(pyr) = nlevels

C6_Witness ==
    /\ PyramidsBuilt
    /\ nlevels = 4
    /\ Len(pyramid_ref.items) = 4
    /\ Len(pyramid_tgt.items) = 4

\* C7: the pyramid is ordered coarsest to finest: the first image was
\* downsampled levels-1 times, each later one once fewer, and the last image
\* is the original input, unmodified.
C7_CoarsestFirst ==
    (PyramidsBuilt /\ nlevels >= 1) =>
        /\ \A i \in DOMAIN pyramid_ref.items :
              IsDownsampled(pyramid_ref.items[i], reference, nlevels - i)
        /\ \A i \in DOMAIN pyramid_tgt.items :
              IsDownsampled(pyramid_tgt.items[i], target, nlevels - i)
        /\ pyramid_ref.items[Len(pyramid_ref.items)] = reference
        /\ pyramid_tgt.items[Len(pyramid_tgt.items)] = target

C7_Witness ==
    /\ PyramidsBuilt
    /\ nlevels = 3
    /\ NumDownsamples(pyramid_ref.items[1]) = 2
    /\ pyramid_ref.items[1].shape = <<1, 1>>
    /\ pyramid_ref.items[3] = reference
    /\ reference.shape = <<4, 3>>

\* C8: along every axis each pyramid image has size ceil(s/2), s the size of
\* the next-finer image: the floor or the ceiling of s/2, and never 0.
C8_HalvedSizes ==
    PyramidsBuilt =>
        \A pyr \in Pyramids : \A i \in 1..(Len(pyr) - 1) :
            \A a \in DOMAIN pyr[i + 1].shape :
                LET s == pyr[i + 1].shape[a]
                    t == pyr[i].shape[a]
                IN  /\ 2 * t \in {s, s + 1}
                    /\ t \in {s \div 2, (s + 1) \div 2}
                    /\ t >= 1

C8_Witness ==
    /\ PyramidsBuilt
    /\ Len(pyramid_ref.items) >= 3
    /\ \E i \in 1..(Len(pyramid_ref.items) - 2) :
          /\ pyramid_ref.items[i + 2].shape = <<4, 3>>
          /\ pyramid_ref.items[i + 1].shape = <<2, 2>>
          /\ pyramid_ref.items[i].shape = <<1, 1>>

C10_NeverModifiedInPlace ==
    [][\A i \in DOMAIN heap : heap'[i] = heap[i]]_vars

\* C10 amended: after its initialisation to a fresh zero vector, p is rebound
\* only to the fresh vector of the optimizer's result; the only in-place change to an existing vector is the doubling of
\* the translation components (indices 1 and 2) of the vector p refers to,
\* before the optimizer call; no rotation component and no other vector is
\* modified in place.
C10_InPlaceOnlyDoubling ==
    [][/\ \A i \in DOMAIN heap :
             heap'[i] # heap[i] =>
                 /\ i = p
                 /\ pc = "loop" /\ pc' = "optimize"
                 /\ heap'[i][1] = heap[i][1]
                 /\ heap'[i][2] = 2 * heap[i][2]
                 /\ heap'[i][3] = 2 * heap[i][3]
       /\ p' # p =>
             /\ p' \notin DOMAIN heap
             /\ \/ pc = "start" /\ heap'[p'] = <<0, 0, 0>>
                \/ /\ pc = "optimize"
                   /\ p' = res'
                   /\ Len(calls') = Len(calls) + 1
                   /\ heap'[p'] = calls'[Len(calls')].x]_vars

C10_Witness ==
    \E k \in DOMAIN calls :
        /\ calls[k].x = <<1, 3, -2>>
        /\ heap[calls[k].xid] = <<1, 6, -4>>

\* C14: the coarsest level's optimizer is seeded with the zero vector, each
\* later level is seeded from the vector object returned at the level just
\* before it, and after every level p is the vector that level's optimizer
\* returned: no earlier estimate is ever restored.
C14_SeededAndReplaced ==
    /\ calls # <<>> => calls[1].x0 = <<0, 0, 0>>
    /\ \A k \in DOMAIN calls : k > 1 => calls[k].x0id = calls[k - 1].xid
    /\ (calls # <<>> /\ pc \in {"loop", "optimize", "done"}) =>
           p = calls[Len(calls)].xid
    /\ (calls # <<>> /\ pc \in {"loop", "done"}) =>
           heap[p] = calls[Len(calls)].x

C14_Witness ==
    /\ pc = "loop"
    /\ Len(calls) = 3
    /\ calls[1].x0 = <<0, 0, 0>>
    /\ calls[2].x = <<1, 3, -2>>
    /\ calls[3].x = <<-1, 0, 5>>
    /\ heap[p] = <<-1, 0, 5>>

C18_PairedShapesEqual ==
    (reference.shape = target.shape) =>
        /\ \A k \in DOMAIN calls : calls[k].ref.shape = calls[k].tgt.shape
        /\ pc = "optimize" => ref.shape = tgt.shape

C18_Witness ==
    /\ reference.shape = <<2, 1>>
    /\ target.shape = <<2, 1>>
    /\ Len(calls) >= 2
    /\ calls[1].ref.shape = <<1, 1>>
    /\ calls[1].tgt.shape = <<1, 1>>
    /\ calls[2].ref.shape = <<2, 1>>
    /\ calls[2].tgt.shape = <<2, 1>>

\* C19: with nlevels <= 0 align raises nothing, invokes no optimizer, and
\* returns the identity transform (built from the zero vector).
C19_NoLevelsIdentity ==
    (nlevels <= 0) =>
        /\ calls = <<>>
        /\ pc # "optimize"
        /\ pc = "done" =>
              result = <<[rotation |-> 0, translation |-> <<0, 0>>, scale |-> 1]>>

C19_Witness ==
    /\ nlevels = 0
    /\ pc = "done"
    /\ calls = <<>>
    /\ result = <<[rotation |-> 0, translation |-> <<0, 0>>, scale |-> 1]>>

\* C20: with levels <= 0 gaussian_pyramid raises nothing and yields exactly
\* one image, the original input.
C20_NoLevelsOneImage ==
    (pc \in {"loop", "optimize", "done"} /\ nlevels <= 0) =>
        /\ pyramid_ref.items = <<reference>>
        /\ pyramid_tgt.items = <<target>>

C20_Witness ==
    /\ nlevels = -1
    /\ pc = "loop"
    /\ Len(pyramid_ref.items) = 1
    /\ pyramid_ref.items[1] = reference

InAlign == pc \in {"loop", "optimize", "done"}

\* C15 as stated: a traversed pyramid yields nothing more, and an align call
\* consumes every element of both of its pyramids exactly once.
C15_EveryElementConsumed ==
    /\ (pc = "traverse" /\ stops >= 1) => yielded = pyramid_ref.items
    /\ pc = "done" =>
          /\ pyramid_ref.pos = Len(pyramid_ref.items)
          /\ pyramid_tgt.pos = Len(pyramid_tgt.items)

\* C15 amended: the pyramid is a forward-only stream (after it has been
\* traversed to its end, further traversal yields no image); within an align
\* call each pyramid is built once and its elements are consumed in order, at
\* most once each: all of them exactly once when nlevels >= 1, and none of
\* them (the single image is never read) when nlevels <= 0.
C15_ForwardOnlyStream ==
    /\ pc = "traverse" =>
          /\ yielded = SubSeq(pyramid_ref.items, 1, pyramid_ref.pos)
          /\ stops >= 1 => yielded = pyramid_ref.items
    /\ InAlign =>
          /\ Len(pyramid_ref.items) = (IF nlevels >= 1 THEN nlevels ELSE 1)
          /\ Len(pyramid_tgt.items) = (IF nlevels >= 1 THEN nlevels ELSE 1)
          /\ pyramid_ref.items[Len(pyramid_ref.items)] = reference
          /\ pyramid_tgt.items[Len(pyramid_tgt.items)] = target
          /\ pyramid_ref.pos = Len(calls) + (IF pc = "optimize" THEN 1 ELSE 0)
          /\ pyramid_tgt.pos = pyramid_ref.pos
          /\ \A k \in DOMAIN calls :
                /\ calls[k].ref = pyramid_ref.items[k]
                /\ calls[k].tgt = pyramid_tgt.items[k]
          /\ (pc = "done" /\ nlevels >= 1) =>
                /\ pyramid_ref.pos = Len(pyramid_ref.items)
                /\ pyramid_tgt.pos = Len(pyramid_tgt.items)
          /\ nlevels <= 0 => (pyramid_ref.pos = 0 /\ pyramid_tgt.pos = 0)

C15_Witness ==
    /\ pc = "traverse"
    /\ nlevels = 3
    /\ stops = MaxStops
    /\ Len(yielded) = 3
    /\ yielded = pyramid_ref.items

\* C16: along an axis of size s >= 1 the sample coordinates of downsample2x
\* start at ((s+1) mod 2)/2, advance by 2, lie in [0, s-1] and are symmetric
\* about (s-1)/2 (coordinates are held doubled).
C16_CenteredSampling ==
    (fn = "downsample2x") =>
        \A a \in DOMAIN reference.shape :
            LET s == reference.shape[a]
                c == ds_coords[a]
            IN  /\ Len(c) >= 1
                /\ c[1] = (IF s % 2 = 0 THEN 1 ELSE 0)
                /\ \A i \in 1..(Len(c) - 1) : c[i + 1] - c[i] = 4
                /\ \A i \in DOMAIN c : 0 <= c[i] /\ c[i] <= 2 * (s - 1)
                /\ \A i \in DOMAIN c : c[i] + c[Len(c) + 1 - i] = 2 * (s - 1)

C16_Witness ==
    /\ fn = "downsample2x"
    /\ reference.shape = <<4, 3>>
    /\ ds_coords = << <<1, 5>>, <<0, 4>> >>
    /\ ref.shape = <<2, 2>>

\* C11: cost_mse at the zero parameter vector with a target equal to the
\* reference is 0; mse is 0 for elementwise equal arrays and strictly
\* greater than 0 for arrays that differ in at least one element.
C11_MseZeroIffEqual ==
    /\ (fn = "cost_mse" /\ fn_param = <<0, 0, 0>> /\ arrB = arrA) => mse_out.num = 0
    /\ (fn = "mse") =>
          /\ mse_out.den = Len(arrA)
          /\ arrA = arrB => mse_out.num = 0
          /\ arrA # arrB => mse_out.num > 0

C11_Witness ==
    /\ fn = "mse"
    /\ arrA = <<0, 1, 2>>
    /\ arrB = <<1, 0, 2>>
    /\ mse_out = [num |-> 2, den |-> 3]

NonConstant(arr) == \E i, j \in DOMAIN arr : arr[i] # arr[j]

\* the arrays normalized_mutual_information received in the call recorded
NmiArgB == IF fn = "cost_nmi" THEN warp(arrB, make_rigid_transform(fn_param)) ELSE arrB

\* H_AB > 0, so that the quotient is a number
NmiDefined(o) == o.hab.pp < Pow(o.hab.nn, o.hab.nn)

SameTotals(o) == o.ha.nn = o.hab.nn /\ o.hb.nn = o.hab.nn

\* H_A + H_B = 2 * H_AB
NmiEq2(o) == SameTotals(o) /\ o.hab.pp * o.hab.pp = o.ha.pp * o.hb.pp

\* H_A + H_B <= 2 * H_AB
NmiLe2(o) == SameTotals(o) /\ o.hab.pp * o.hab.pp <= o.ha.pp * o.hb.pp

\* H_A + H_B >= H_AB
NmiGe1(o) == SameTotals(o) /\ Pow(o.hab.nn, o.hab.nn) * o.hab.pp >= o.ha.pp * o.hb.pp

C13_NmiBetweenOneAndTwo ==
    (fn \in {"nmi", "cost_nmi"} /\ (NonConstant(arrA) \/ NonConstant(NmiArgB))) =>
        /\ NmiDefined(nmi_out)
        /\ NmiGe1(nmi_out)
        /\ NmiLe2(nmi_out)
        /\ nmi_out.neg = (fn = "cost_nmi")

C13_Witness ==
    /\ fn = "cost_nmi"
    /\ fn_param = <<0, 0, 0>>
    /\ arrA = <<0, 1, 2>>
    /\ arrB = <<0, 0, 1>>
    /\ nmi_out.ha = [nn |-> 3, pp |-> 4]
    /\ nmi_out.hb = [nn |-> 3, pp |-> 1]
    /\ nmi_out.hab = [nn |-> 3, pp |-> 1]
    /\ nmi_out.neg

====
